---- MODULE Spec2Model ----
(***************************************************************************)
(* Model of InboundQueueService (src/src/services/PJSIPService.ts): the    *)
(* call-member attempt, the callback-service handoff, the ring-all and the *)
(* sequential dispatch strategies, and the two queue session handlers.     *)
(*                                                                         *)
(* Scheduling is that of the JavaScript event loop: a handler runs until   *)
(* its next await; every action below is one such run (an event delivered  *)
(* by the control plane, or the continuation of one awaited request).      *)
(* A continuation that runs in the same turn as the promise that resolves  *)
(* (the .then callback of ring-all, the loop of callQueueMembers after     *)
(* `await this.callQueueMember`) is part of the action that resolves it.   *)
(*                                                                         *)
(* The control plane: a request on a channel fails exactly when the        *)
(* channel is gone, and a gone channel stays gone; an event reaches the     *)
(* listeners registered when the control plane emits it; media played on   *)
(* the inbound channel under one playback handle is queued and played in   *)
(* order, each ending with a PlaybackFinished for that handle. A timer     *)
(* tick fires only when the previous tick's callback has ended. The        *)
(* fire-and-forget notification request (lines 100-103) touches no state   *)
(* of the model and is left out.                                           *)
(*                                                                         *)
(* The queue session handlers take their destination list from the queue   *)
(* record's comma-separated string (getListOfQueuePhoneNumbers); ring-all  *)
(* dispatch is called with a list directly. Other sessions of the process  *)
(* appear through the CallbackQueue singleton only: their enqueues and     *)
(* dequeues run between this session's steps (SpecSessions).               *)
(***************************************************************************)
EXTENDS Integers, Sequences, FiniteSets, TLC

\* Longest destination list explored (ring-all and plain queue).
MaxDest == 2
\* Longest destination list explored in the callback-enabled queue.
MaxCitationDest == 1
\* Digit-received events delivered to one session.
MaxDigits == 2
\* Ticks of the periodic prompt-replay timer of one session.
MaxTicks == 1
\* Entries other sessions left in the process-wide callback queue at the start.
MaxForeign == 1
\* Longest destination list explored next to other sessions' queue traffic.
MaxSessionsDest == 1
\* Entries other sessions enqueue while this session's dispatch runs.
MaxOtherEnroll == 2
\* Handoff dequeues of other sessions while this session's dispatch runs.
MaxOtherHandoff == 1

VARIABLES
  mode,             \* which entry point runs: "ringall", "plain", "citation"
  queueNumbers,     \* the destination list of the dispatch call
  inboundAlive,     \* the inbound channel still exists on the control plane
  recording,        \* live recording of the inbound channel
  och,              \* och[i]: outbound channel of attempt i
  hpc,              \* hpc[i]: position of attempt i's StasisStart handler
  succ,             \* succ[i]: callQueueMember's local `success`
  res,              \* res[i]: what attempt i's promise resolved to
  endReg,           \* endReg[i]: outbound StasisEnd listener registered
  bridge,           \* bridge[i]: the attempt's `bridge`
  addIssued,        \* addIssued[i]: addChannel([inbound, outbound]) issued
  cb,               \* cb[i]: the attempt's callbackChannel
  cbBridge,         \* cbBridge[i]: the attempt's callbackBridge
  cbAdded,          \* cbAdded[i]: channels added to callbackBridge
  cbData,           \* cbData[i]: the entry the handoff dequeued
  callerGone,       \* callerGone[i]: the handler's lookup failed (catch branch taken)
  callbackQueue,    \* CallbackQueue singleton (FIFO)
  hangups,          \* channels InboundNumberService.hangupChannel was called on
  dpc,              \* position of the dispatch strategy
  k,                \* loop index of callQueueMembers
  success,          \* the strategy's `success`
  answeredChannel,  \* ring-all's `answeredChannel`
  result,           \* value the strategy returned
  hp,               \* position of the queue session handler
  redirect,         \* control-plane requests of the voicemail redirect, in order
  dtmfOn,           \* ChannelDtmfReceived listener attached
  dpcb,             \* position of callbackRequestHandler
  digits,           \* digit-received events delivered so far
  enqueued,         \* entries this session enqueued
  playQ,            \* media queued on the inbound channel under `playback`
  pfReg,            \* PlaybackFinished once-listener registered
  confirmDone,      \* the confirmation prompt finished playing
  enrollHangups,    \* hangups issued by the PlaybackFinished listener
  timerOn,          \* setInterval timer active
  tpc,              \* position of the timer callback
  ticks,            \* timer ticks fired
  unhandled,        \* an async handler rejected with nobody catching
  enrolled,         \* every entry enqueued in the CallbackQueue, in enqueue order
  delivered,        \* every entry a dequeue returned, in dequeue order
  notAlive          \* iteration whose lookup first failed in callQueueMembers (0: none)

vars == <<mode, queueNumbers, inboundAlive, recording, och, hpc, succ, res, endReg,
          bridge, addIssued, cb, cbBridge, cbAdded, cbData, callerGone,
          callbackQueue, hangups, dpc, k, success, answeredChannel, result, hp, redirect,
          dtmfOn, dpcb, digits, enqueued, playQ, pfReg, confirmDone, enrollHangups,
          timerOn, tpc, ticks, unhandled, enrolled, delivered, notAlive>>

attemptVars == <<och, hpc, succ, res, endReg, bridge, addIssued>>
handoffVars == <<cb, cbBridge, cbAdded, cbData, callerGone>>
dispatchVars == <<dpc, k, success, answeredChannel, result, notAlive>>
queueVars == <<callbackQueue, enrolled, delivered>>
promptVars == <<dtmfOn, dpcb, digits, enqueued, playQ, pfReg, confirmDone,
                enrollHangups, timerOn, tpc, ticks>>

----------------------------------------------------------------------------
\* Channel identities.
Inbound == <<"inbound", 0>>
Out(i) == <<"outbound", i>>
Agent(i) == <<"agentChannels", i>>
Cb(i) == <<"callback", i>>
NoChannel == <<"undefined", 0>>

Phones == <<"201", "202", "203", "204">>
Dests == 1..Len(queueNumbers)
NoNumber == "null"
Str(b) == IF b THEN "true" ELSE "false"

\* Entries of the callback queue: this session's payload and other sessions'.
OwnEntry == <<"own", 0>>
NoEntry == <<"none", 0>>
ForeignEntry(n) == <<"foreign", n>>
ForeignQueue(n) == [j \in 1..n |-> ForeignEntry(j)]

----------------------------------------------------------------------------
\* The queue record's comma-separated destination string, as a sequence of
\* tokens: a destination identifier, a comma, or a blank.
Comma == ","
Blank == " "

\* String.prototype.split(','): the pieces between the commas; a string
\* without a comma (the empty string too) is one piece.
RECURSIVE Split(_)
Split(s) ==
  IF \A j \in 1..Len(s) : s[j] # Comma
    THEN <<s>>
    ELSE LET c == CHOOSE j \in 1..Len(s) :
                    s[j] = Comma /\ \A l \in 1..(j - 1) : s[l] # Comma
         IN <<SubSeq(s, 1, c - 1)>> \o Split(SubSeq(s, c + 1, Len(s)))

\* String.prototype.trim(): leading and trailing blanks removed.
RECURSIVE Trim(_)
Trim(s) ==
  IF s # <<>> /\ Head(s) = Blank THEN Trim(Tail(s))
  ELSE IF s # <<>> /\ s[Len(s)] = Blank THEN Trim(SubSeq(s, 1, Len(s) - 1))
  ELSE s

\* The string a trimmed piece is: the empty string, or its identifier.
Phone(piece) == IF piece = <<>> THEN "" ELSE Head(piece)

\* getListOfQueuePhoneNumbers(inboundNumber).
GetListOfQueuePhoneNumbers(queue_numbers) ==
  LET pieces == Split(queue_numbers)
  IN [j \in 1..Len(pieces) |-> Phone(Trim(pieces[j]))]

\* The destination string of a queue record naming the first n identifiers
\* ("", "201", "201, 202", ...).
RECURSIVE QueueNumbersString(_)
QueueNumbersString(n) ==
  IF n = 0 THEN <<>>
  ELSE IF n = 1 THEN <<Phones[1]>>
  ELSE QueueNumbersString(n - 1) \o <<Comma, Blank, Phones[n]>>

\* Destination lists a caller passes to a dispatch strategy directly.
DirectLists(maxDest) == {SubSeq(Phones, 1, n) : n \in 0..maxDest}

\* Destination lists the queue session handlers derive from a queue record.
ConfiguredLists(maxDest) ==
  {GetListOfQueuePhoneNumbers(QueueNumbersString(n)) : n \in 0..maxDest}

----------------------------------------------------------------------------
\* Initial states: nothing dialled yet, the inbound caller is in the app.
InitCommon(m, lists) ==
  /\ mode = m
  /\ queueNumbers \in lists
  /\ inboundAlive = TRUE
  /\ recording = "none"
  /\ och = [i \in Dests |-> "none"]
  /\ hpc = [i \in Dests |-> "idle"]
  /\ succ = [i \in Dests |-> FALSE]
  /\ res = [i \in Dests |-> "pending"]
  /\ endReg = [i \in Dests |-> FALSE]
  /\ bridge = [i \in Dests |-> "none"]
  /\ addIssued = [i \in Dests |-> FALSE]
  /\ cb = [i \in Dests |-> "none"]
  /\ cbBridge = [i \in Dests |-> "none"]
  /\ cbAdded = [i \in Dests |-> {}]
  /\ cbData = [i \in Dests |-> NoEntry]
  /\ callerGone = [i \in Dests |-> FALSE]
  /\ \E n \in 0..MaxForeign : callbackQueue = ForeignQueue(n)
  /\ enrolled = callbackQueue
  /\ delivered = <<>>
  /\ hangups = {}
  /\ k = 0
  /\ success = FALSE
  /\ answeredChannel = NoNumber
  /\ result = "none"
  /\ redirect = <<>>
  /\ dtmfOn = FALSE
  /\ dpcb = "idle"
  /\ digits = 0
  /\ enqueued = 0
  /\ playQ = <<>>
  /\ pfReg = FALSE
  /\ confirmDone = FALSE
  /\ enrollHangups = 0
  /\ timerOn = FALSE
  /\ tpc = "idle"
  /\ ticks = 0
  /\ unhandled = FALSE
  /\ notAlive = 0

----------------------------------------------------------------------------
\* InboundNumberService helpers (best-effort cleanup primitives).

\* hangupChannel(c) for every c in cs: the request is issued; a channel that
\* is already gone, or no channel at all, is ignored.
HangupChannels(cs) == hangups' = hangups \cup cs

\* destroyBridge(b): destroys a bridge that exists, ignores any other.
DestroyBridge(b) == IF b = "created" THEN "destroyed" ELSE b

\* The media `playback` is playing ends (finished or stopped): the control
\* plane emits PlaybackFinished for the handle, and the once-listener of
\* callbackRequestHandler, when registered, hangs up the inbound channel.
PlaybackFinished ==
  /\ playQ' = Tail(playQ)
  /\ confirmDone' = (confirmDone \/ Head(playQ) = "confirm")
  /\ IF pfReg
       THEN /\ pfReg' = FALSE
            /\ enrollHangups' = enrollHangups + 1
            /\ HangupChannels({Inbound})
       ELSE UNCHANGED <<pfReg, enrollHangups, hangups>>

\* stopPlayback(playback): stops what the handle plays; nothing to stop (or no
\* handle, as in the plain queue) is ignored.
StopPlayback ==
  IF playQ # <<>>
    THEN PlaybackFinished
    ELSE UNCHANGED <<playQ, confirmDone, pfReg, enrollHangups, hangups>>

----------------------------------------------------------------------------
\* The dispatch strategies' continuations of one resolved attempt.

\* callQueueMembers: the loop goes on after iteration kk, whose attempt did
\* not answer (or whose lookup failed): the next iteration issues its lookup,
\* or the list is exhausted and `success` is returned.
SeqNextIteration(kk, s) ==
  IF kk < Len(queueNumbers)
    THEN /\ k' = kk + 1
         /\ dpc' = "lookup"
         /\ result' = result
    ELSE /\ k' = kk
         /\ dpc' = "done"
         /\ result' = Str(s)

\* callQueueMembers after `success = await this.callQueueMember(...)`.
SeqContinue(i, v) ==
  /\ success' = v
  /\ notAlive' = notAlive
  /\ answeredChannel' = answeredChannel
  /\ IF v
       THEN /\ HangupChannels({Agent(j) : j \in 1..k})
            /\ k' = k
            /\ dpc' = "done"
            /\ result' = "true"
       ELSE /\ hangups' = hangups
            /\ SeqNextIteration(k, FALSE)

\* ongoingCalls holds the promises `callQueueMember(...).then(...)` returns: a
\* promise has no phoneNumber and no outboundChannel property.
OngoingCallPhoneNumber(j) == "undefined"
OngoingCallOutboundChannel(j) == NoChannel

\* "Drop other calls": the channels hangupChannel is called with.
DropOtherCalls(i) ==
  {OngoingCallOutboundChannel(j) :
     j \in {j \in Dests : OngoingCallPhoneNumber(j) # queueNumbers[i]}}

\* Mutant of RingallContinue: the dispatch returns as soon as one attempt has
\* won, without joining the others.
RingallContinueFirstWins(i, v) ==
  LET wins == v /\ answeredChannel = NoNumber
      newRes == [res EXCEPT ![i] = Str(v)]
  IN /\ answeredChannel' = IF wins THEN queueNumbers[i] ELSE answeredChannel
     /\ success' = (success \/ wins)
     /\ hangups' = IF wins THEN hangups \cup DropOtherCalls(i) ELSE hangups
     /\ k' = k
     /\ notAlive' = notAlive
     /\ IF wins \/ \A j \in Dests : newRes[j] # "pending"
          THEN dpc' = "done" /\ result' = Str(success \/ wins)
          ELSE UNCHANGED <<dpc, result>>

\* callQueueMembersRingall: the .then callback of attempt i, and the join
\* (Promise.all) once every attempt has resolved.
RingallContinue(i, v) ==
  LET wins == v /\ answeredChannel = NoNumber
      newRes == [res EXCEPT ![i] = Str(v)]
  IN /\ answeredChannel' = IF wins THEN queueNumbers[i] ELSE answeredChannel
     /\ success' = (success \/ wins)
     /\ hangups' = IF wins THEN hangups \cup DropOtherCalls(i) ELSE hangups
     /\ k' = k
     /\ notAlive' = notAlive
     /\ IF \A j \in Dests : newRes[j] # "pending"
          THEN dpc' = "done" /\ result' = Str(success \/ wins)
          ELSE UNCHANGED <<dpc, result>>

AttemptResolved(i, v) ==
  IF mode = "ringall" THEN RingallContinue(i, v) ELSE SeqContinue(i, v)

----------------------------------------------------------------------------
\* callQueueMember: one outbound attempt.

\* Mutant of OriginateResolve: the attempt resolves (false) as soon as the
\* originate is accepted, without waiting for ChannelDestroyed.
OriginateResolveNoWait(i) ==
  /\ och[i] = "originating"
  /\ \/ /\ och' = [och EXCEPT ![i] = "ringing"]
        /\ res' = [res EXCEPT ![i] = "false"]
        /\ AttemptResolved(i, FALSE)
     \/ /\ och' = [och EXCEPT ![i] = "rejected"]
        /\ res' = [res EXCEPT ![i] = "false"]
        /\ AttemptResolved(i, FALSE)
  /\ UNCHANGED <<mode, queueNumbers, inboundAlive, recording, hpc, succ, endReg,
                 bridge, addIssued, handoffVars, queueVars, hp, redirect,
                 promptVars, unhandled>>

\* Mutant of OriginateResolve: a rejected originate ends the whole dispatch
\* call with false.
OriginateResolveAbort(i) ==
  /\ och[i] = "originating"
  /\ \/ /\ och' = [och EXCEPT ![i] = "ringing"]
        /\ UNCHANGED <<res, dispatchVars, hangups>>
     \/ /\ och' = [och EXCEPT ![i] = "rejected"]
        /\ res' = [res EXCEPT ![i] = "false"]
        /\ dpc' = "done"
        /\ result' = "false"
        /\ UNCHANGED <<k, success, answeredChannel, notAlive, hangups>>
  /\ UNCHANGED <<mode, queueNumbers, inboundAlive, recording, hpc, succ, endReg,
                 bridge, addIssued, handoffVars, queueVars, hp, redirect,
                 promptVars, unhandled>>

\* `await outboundChannel.originate(...)` resolves: the listeners are
\* registered, or the control plane rejected it and the attempt returns false.
OriginateResolve(i) ==
  /\ och[i] = "originating"
  /\ \/ /\ och' = [och EXCEPT ![i] = "ringing"]
        /\ UNCHANGED <<res, dispatchVars, hangups>>
     \/ /\ och' = [och EXCEPT ![i] = "rejected"]
        /\ res' = [res EXCEPT ![i] = "false"]
        /\ AttemptResolved(i, FALSE)
  /\ UNCHANGED <<mode, queueNumbers, inboundAlive, recording, hpc, succ, endReg,
                 bridge, addIssued, handoffVars, queueVars, hp, redirect,
                 promptVars, unhandled>>

\* The destination answers: StasisStart on the outbound channel; the handler
\* runs up to `await InboundNumberService.stopPlayback(...)`.
OutboundStasisStart(i) ==
  /\ och[i] = "ringing"
  /\ och' = [och EXCEPT ![i] = "up"]
  /\ hpc' = [hpc EXCEPT ![i] = "stopPlayback"]
  /\ UNCHANGED <<mode, queueNumbers, inboundAlive, recording, succ, res, endReg,
                 bridge, addIssued, handoffVars, queueVars, hangups,
                 dispatchVars, hp, redirect, promptVars, unhandled>>

\* stopPlayback resolved; the handler issues the inbound-channel lookup.
HandlerStopPlayback(i) ==
  /\ hpc[i] = "stopPlayback"
  /\ StopPlayback
  /\ hpc' = [hpc EXCEPT ![i] = "lookup"]
  /\ UNCHANGED <<mode, queueNumbers, inboundAlive, recording, och, succ, res,
                 endReg, bridge, addIssued, handoffVars, queueVars,
                 dispatchVars, hp, redirect, dtmfOn, dpcb, digits, enqueued,
                 timerOn, tpc, ticks, unhandled>>

\* Mutant of PromptCitationCallback: the head of the queue is read but not
\* removed.
PromptCitationCallbackPeek(i) ==
  IF callbackQueue # <<>>
    THEN /\ cbData' = [cbData EXCEPT ![i] = Head(callbackQueue)]
         /\ callbackQueue' = callbackQueue
         /\ delivered' = Append(delivered, Head(callbackQueue))
         /\ enrolled' = enrolled
         /\ cb' = [cb EXCEPT ![i] = "originating"]
         /\ hpc' = [hpc EXCEPT ![i] = "cbOriginate"]
         /\ succ' = succ
    ELSE /\ UNCHANGED <<cbData, queueVars, cb>>
         /\ succ' = [succ EXCEPT ![i] = TRUE]
         /\ hpc' = [hpc EXCEPT ![i] = "stopMoh"]

\* promptCitationCallback up to `await callbackChannel.originate(...)`: the
\* oldest entry is dequeued, the callback channel's StasisStart listener is
\* registered and the originate is issued. With an empty queue it returns.
PromptCitationCallback(i) ==
  IF callbackQueue # <<>>
    THEN /\ cbData' = [cbData EXCEPT ![i] = Head(callbackQueue)]
         /\ callbackQueue' = Tail(callbackQueue)
         /\ delivered' = Append(delivered, Head(callbackQueue))
         /\ enrolled' = enrolled
         /\ cb' = [cb EXCEPT ![i] = "originating"]
         /\ hpc' = [hpc EXCEPT ![i] = "cbOriginate"]
         /\ succ' = succ
    ELSE /\ UNCHANGED <<cbData, queueVars, cb>>
         /\ succ' = [succ EXCEPT ![i] = TRUE]
         /\ hpc' = [hpc EXCEPT ![i] = "stopMoh"]

\* The lookup resolved: the caller is there (success = true, stopMoh issued),
\* or the catch branch hands off to the callback queue.
HandlerLookup(i) ==
  /\ hpc[i] = "lookup"
  /\ IF inboundAlive
       THEN /\ succ' = [succ EXCEPT ![i] = TRUE]
            /\ hpc' = [hpc EXCEPT ![i] = "stopMoh"]
            /\ UNCHANGED <<cbData, queueVars, cb, callerGone>>
       ELSE /\ callerGone' = [callerGone EXCEPT ![i] = TRUE]
            /\ PromptCitationCallback(i)
  /\ UNCHANGED <<mode, queueNumbers, inboundAlive, recording, och, res, endReg,
                 bridge, addIssued, cbBridge, cbAdded, hangups, dispatchVars, hp,
                 redirect, promptVars, unhandled>>

\* The callback originate resolved (a rejection is caught and logged);
\* promptCitationCallback returns, success = true, stopMoh issued.
HandlerCallbackOriginate(i) ==
  /\ hpc[i] = "cbOriginate"
  /\ \E o \in {"ringing", "rejected"} : cb' = [cb EXCEPT ![i] = o]
  /\ succ' = [succ EXCEPT ![i] = TRUE]
  /\ hpc' = [hpc EXCEPT ![i] = "stopMoh"]
  /\ UNCHANGED <<mode, queueNumbers, inboundAlive, recording, och, res, endReg,
                 bridge, addIssued, cbBridge, cbAdded, cbData, callerGone,
                 queueVars, hangups, dispatchVars, hp, redirect, promptVars,
                 unhandled>>

\* Mutant of HandlerStopMoh: stopMoh succeeds on a gone inbound channel too, so
\* the handler goes on to bridge after the caller-gone branch.
HandlerStopMohNoFail(i) ==
  /\ hpc[i] = "stopMoh"
  /\ endReg' = [endReg EXCEPT ![i] = TRUE]
  /\ bridge' = [bridge EXCEPT ![i] = "creating"]
  /\ hpc' = [hpc EXCEPT ![i] = "done"]
  /\ UNCHANGED <<mode, queueNumbers, inboundAlive, recording, och, succ, res,
                 addIssued, handoffVars, queueVars, hangups, dispatchVars,
                 hp, redirect, promptVars, unhandled>>

\* `await inboundChannel.stopMoh()` resolved: the StasisEnd listener is
\* registered and bridge.create issued; on a gone inbound channel it rejects
\* and the async handler ends with that rejection.
HandlerStopMoh(i) ==
  /\ hpc[i] = "stopMoh"
  /\ IF inboundAlive
       THEN /\ endReg' = [endReg EXCEPT ![i] = TRUE]
            /\ bridge' = [bridge EXCEPT ![i] = "creating"]
            /\ hpc' = [hpc EXCEPT ![i] = "done"]
            /\ unhandled' = unhandled
       ELSE /\ hpc' = [hpc EXCEPT ![i] = "threw"]
            /\ unhandled' = TRUE
            /\ UNCHANGED <<endReg, bridge>>
  /\ UNCHANGED <<mode, queueNumbers, inboundAlive, recording, och, succ, res,
                 addIssued, handoffVars, queueVars, hangups, dispatchVars,
                 hp, redirect, promptVars>>

\* bridge.create's callback: addChannel([inbound, outbound]) is issued; its
\* promise is dropped, so a failure on a gone channel is caught by nobody.
BridgeCreated(i) ==
  /\ bridge[i] = "creating"
  /\ bridge' = [bridge EXCEPT ![i] = "created"]
  /\ addIssued' = [addIssued EXCEPT ![i] = TRUE]
  /\ unhandled' = (unhandled \/ ~inboundAlive \/ och[i] # "up")
  /\ UNCHANGED <<mode, queueNumbers, inboundAlive, recording, och, hpc, succ,
                 res, endReg, handoffVars, queueVars, hangups, dispatchVars,
                 hp, redirect, promptVars>>

\* StasisEnd on the answered outbound channel: the once-listener, when
\* registered, destroys both bridges and hangs up inbound and callback.
OutboundStasisEnd(i) ==
  /\ och[i] = "up"
  /\ och' = [och EXCEPT ![i] = "ended"]
  /\ IF endReg[i]
       THEN /\ endReg' = [endReg EXCEPT ![i] = FALSE]
            /\ bridge' = [bridge EXCEPT ![i] = DestroyBridge(bridge[i])]
            /\ cbBridge' = [cbBridge EXCEPT ![i] = DestroyBridge(cbBridge[i])]
            /\ HangupChannels({Inbound, Cb(i)})
       ELSE UNCHANGED <<endReg, bridge, cbBridge, hangups>>
  /\ UNCHANGED <<mode, queueNumbers, inboundAlive, recording, hpc, succ, res,
                 addIssued, cb, cbAdded, cbData, callerGone, queueVars,
                 dispatchVars, hp, redirect, promptVars, unhandled>>

\* ChannelDestroyed on the outbound channel (ring timeout, busy, or after its
\* session ended): the attempt resolves with `success` as it is now.
OutboundChannelDestroyed(i) ==
  /\ och[i] \in {"ringing", "ended"}
  /\ och' = [och EXCEPT ![i] = "destroyed"]
  /\ res' = [res EXCEPT ![i] = Str(succ[i])]
  /\ AttemptResolved(i, succ[i])
  /\ UNCHANGED <<mode, queueNumbers, inboundAlive, recording, hpc, succ, endReg,
                 bridge, addIssued, handoffVars, queueVars, hp, redirect,
                 promptVars, unhandled>>

----------------------------------------------------------------------------
\* promptCitationCallback: the callback channel's listeners.

\* The called-back party answers: the StasisEnd listener is registered and
\* callbackBridge.create issued.
CallbackStasisStart(i) ==
  /\ cb[i] = "ringing"
  /\ cb' = [cb EXCEPT ![i] = "up"]
  /\ cbBridge' = [cbBridge EXCEPT ![i] = "creating"]
  /\ UNCHANGED <<mode, queueNumbers, inboundAlive, recording, attemptVars,
                 cbAdded, cbData, callerGone, queueVars, hangups,
                 dispatchVars, hp, redirect, promptVars, unhandled>>

\* Mutant of CallbackBridgeCreated: the callback channel is bridged with the
\* (gone) inbound channel instead of the agent's channel.
CallbackBridgeCreatedInbound(i) ==
  /\ cbBridge[i] = "creating"
  /\ cbBridge' = [cbBridge EXCEPT ![i] = "created"]
  /\ cbAdded' = [cbAdded EXCEPT ![i] = {Inbound, Cb(i)}]
  /\ UNCHANGED <<mode, queueNumbers, inboundAlive, recording, attemptVars, cb,
                 cbData, callerGone, queueVars, hangups, dispatchVars, hp,
                 redirect, promptVars, unhandled>>

\* callbackBridge.create's callback: the agent's channel and the callback
\* channel are added.
CallbackBridgeCreated(i) ==
  /\ cbBridge[i] = "creating"
  /\ cbBridge' = [cbBridge EXCEPT ![i] = "created"]
  /\ cbAdded' = [cbAdded EXCEPT ![i] = {Out(i), Cb(i)}]
  /\ UNCHANGED <<mode, queueNumbers, inboundAlive, recording, attemptVars, cb,
                 cbData, callerGone, queueVars, hangups, dispatchVars, hp,
                 redirect, promptVars, unhandled>>

\* StasisEnd on the callback channel: both bridges destroyed, agent hung up.
CallbackStasisEnd(i) ==
  /\ cb[i] = "up"
  /\ cb' = [cb EXCEPT ![i] = "ended"]
  /\ bridge' = [bridge EXCEPT ![i] = DestroyBridge(bridge[i])]
  /\ cbBridge' = [cbBridge EXCEPT ![i] = DestroyBridge(cbBridge[i])]
  /\ HangupChannels({Out(i)})
  /\ UNCHANGED <<mode, queueNumbers, inboundAlive, recording, och, hpc, succ,
                 res, endReg, addIssued, cbAdded, cbData, callerGone,
                 queueVars, dispatchVars, hp, redirect, promptVars, unhandled>>

\* The called-back party never answers: the callback channel goes away
\* without a session.
CallbackNoAnswer(i) ==
  /\ cb[i] = "ringing"
  /\ cb' = [cb EXCEPT ![i] = "ended"]
  /\ UNCHANGED <<mode, queueNumbers, inboundAlive, recording, attemptVars,
                 cbBridge, cbAdded, cbData, callerGone, queueVars, hangups,
                 dispatchVars, hp, redirect, promptVars, unhandled>>

\* The inbound caller goes away (hangs up, or is hung up): the channel is gone
\* for every later request; the handler's StasisEnd listener stops recording.
InboundGone ==
  /\ inboundAlive
  /\ inboundAlive' = FALSE
  /\ recording' = IF recording = "active" THEN "stopped" ELSE recording
  /\ playQ' = <<>>
  /\ UNCHANGED <<mode, queueNumbers, attemptVars, handoffVars, queueVars,
                 hangups, dispatchVars, hp, redirect, dtmfOn, dpcb, digits,
                 enqueued, pfReg, confirmDone, enrollHangups, timerOn, tpc, ticks,
                 unhandled>>

----------------------------------------------------------------------------
\* Other sessions of the same process, seen through the CallbackQueue singleton
\* they share with this one: their steps run between this session's steps.

\* Dequeues that returned an entry to another session's handoff.
OtherHandoffs == Len(delivered) - Cardinality({i \in Dests : cbData[i] # NoEntry})

\* callbackRequestHandler of another session enqueues its payload.
OtherSessionEnroll ==
  /\ Len(enrolled) < MaxForeign + MaxOtherEnroll
  /\ callbackQueue' = Append(callbackQueue, ForeignEntry(Len(enrolled) + 1))
  /\ enrolled' = Append(enrolled, ForeignEntry(Len(enrolled) + 1))
  /\ delivered' = delivered
  /\ UNCHANGED <<mode, queueNumbers, inboundAlive, recording, attemptVars,
                 handoffVars, hangups, dispatchVars, hp, redirect, promptVars,
                 unhandled>>

\* promptCitationCallback of another session dequeues the oldest entry.
OtherSessionHandoff ==
  /\ OtherHandoffs < MaxOtherHandoff
  /\ callbackQueue # <<>>
  /\ callbackQueue' = Tail(callbackQueue)
  /\ delivered' = Append(delivered, Head(callbackQueue))
  /\ enrolled' = enrolled
  /\ UNCHANGED <<mode, queueNumbers, inboundAlive, recording, attemptVars,
                 handoffVars, hangups, dispatchVars, hp, redirect, promptVars,
                 unhandled>>

----------------------------------------------------------------------------
\* The dispatch strategies.

\* callQueueMembersRingall is called: an empty list returns false; otherwise
\* every callQueueMember call runs up to its `await originate`.
RingallCall ==
  /\ mode = "ringall"
  /\ dpc = "start"
  /\ IF Len(queueNumbers) = 0
       THEN /\ dpc' = "done"
            /\ result' = "false"
            /\ och' = och
       ELSE /\ dpc' = "join"
            /\ result' = result
            /\ och' = [i \in Dests |-> "originating"]
  /\ UNCHANGED <<mode, queueNumbers, inboundAlive, recording, hpc, succ, res,
                 endReg, bridge, addIssued, handoffVars, queueVars, hangups,
                 k, success, answeredChannel, notAlive, hp, redirect, promptVars,
                 unhandled>>

\* callQueueMembers is called: an empty list returns false; otherwise the
\* first iteration issues its lookup of the inbound channel.
SeqCall ==
  /\ success' = FALSE
  /\ UNCHANGED <<answeredChannel, notAlive>>
  /\ IF Len(queueNumbers) = 0
       THEN /\ dpc' = "done"
            /\ result' = "false"
            /\ k' = k
       ELSE /\ dpc' = "lookup"
            /\ result' = result
            /\ k' = 1

\* Mutant of SeqProceeds: the lookup's failure is logged and the attempt made
\* all the same.
SeqProceedsAlways == TRUE

\* Whether the iteration goes on to callQueueMember after its lookup.
SeqProceeds == inboundAlive

\* `await ariData.client.channels.get(...)` of iteration k resolved: the
\* attempt is started (its originate issued), or the catch logs and the loop
\* goes to the next destination.
SeqLookup ==
  /\ dpc = "lookup"
  /\ notAlive' = IF ~inboundAlive /\ notAlive = 0 THEN k ELSE notAlive
  /\ IF SeqProceeds
       THEN /\ och' = [och EXCEPT ![k] = "originating"]
            /\ dpc' = "member"
            /\ UNCHANGED <<k, result>>
       ELSE /\ och' = och
            /\ SeqNextIteration(k, success)
  /\ UNCHANGED <<mode, queueNumbers, inboundAlive, recording, hpc, succ, res,
                 endReg, bridge, addIssued, handoffVars, queueVars, hangups,
                 success, answeredChannel, hp, redirect, promptVars, unhandled>>

----------------------------------------------------------------------------
\* inboundQueueHandler (plain queue).

Message == "inboundNumber.message"
Voicemail == "inboundNumber.voicemail"
VoicemailContext == "config.voicemail.context"
AnswerRequest == <<"answer">>
SetVarRequest == <<"setChannelVar", "MESSAGE", Message>>
ContinueRequest == <<"continueInDialplan", VoicemailContext, Voicemail, 1>>

\* createRecordingChannel resolved: the StasisEnd listener is registered and
\* callQueueMembers called.
PlainStart ==
  /\ mode = "plain"
  /\ hp = "recording"
  /\ recording' = IF inboundAlive THEN "active" ELSE recording
  /\ SeqCall
  /\ hp' = "dispatch"
  /\ UNCHANGED <<mode, queueNumbers, inboundAlive, attemptVars, handoffVars,
                 queueVars, hangups, redirect, promptVars, unhandled>>

\* Mutant of RedirectWanted: the redirect runs whatever dispatch returned.
RedirectAlways == TRUE

\* `if (!success)`.
RedirectWanted == result = "false"

\* Dispatch returned: on failure the redirect starts with answer().
PlainAfterDispatch ==
  /\ mode = "plain"
  /\ hp = "dispatch"
  /\ dpc = "done"
  /\ IF RedirectWanted
       THEN /\ redirect' = <<AnswerRequest>>
            /\ hp' = "answer"
       ELSE /\ redirect' = redirect
            /\ hp' = "done"
  /\ UNCHANGED <<mode, queueNumbers, inboundAlive, recording, attemptVars,
                 handoffVars, queueVars, hangups, dispatchVars, promptVars,
                 unhandled>>

\* One awaited request of the redirect resolved: the next one is issued; a
\* request on a gone channel rejects and the catch logs.
PlainRedirectStep ==
  /\ mode = "plain"
  /\ hp \in {"answer", "setVar", "continue"}
  /\ IF ~inboundAlive
       THEN /\ hp' = "done"
            /\ UNCHANGED <<redirect, recording>>
       ELSE CASE hp = "answer" ->
                   /\ redirect' = Append(redirect, SetVarRequest)
                   /\ hp' = "setVar"
                   /\ recording' = recording
              [] hp = "setVar" ->
                   /\ redirect' = Append(redirect, ContinueRequest)
                   /\ hp' = "continue"
                   /\ recording' = recording
              [] hp = "continue" ->
                   /\ redirect' = redirect
                   /\ hp' = "done"
                   /\ recording' = IF recording = "active" THEN "stopped" ELSE recording
  /\ UNCHANGED <<mode, queueNumbers, inboundAlive, attemptVars, handoffVars,
                 queueVars, hangups, dispatchVars, promptVars, unhandled>>

----------------------------------------------------------------------------
\* promptCitationQueueHandler (callback-enabled queue).

\* createRecordingChannel resolved: the StasisEnd and ChannelDtmfReceived
\* listeners are registered and the info prompt's play is issued.
CitationStart ==
  /\ mode = "citation"
  /\ hp = "recording"
  /\ recording' = IF inboundAlive THEN "active" ELSE recording
  /\ dtmfOn' = TRUE
  /\ hp' = "play"
  /\ UNCHANGED <<mode, queueNumbers, inboundAlive, attemptVars, handoffVars,
                 queueVars, hangups, dispatchVars, redirect, dpcb, digits,
                 enqueued, playQ, pfReg, confirmDone, enrollHangups, timerOn,
                 tpc, ticks, unhandled>>

\* `await inboundChannel.play(info)` then `await inboundChannel.startMoh()`:
\* on a gone channel the handler logs and returns; after startMoh the timer
\* is set and callQueueMembers called.
CitationPrompt ==
  /\ mode = "citation"
  /\ hp \in {"play", "startMoh"}
  /\ IF ~inboundAlive
       THEN /\ hp' = "done"
            /\ UNCHANGED <<playQ, timerOn, dispatchVars>>
       ELSE IF hp = "play"
         THEN /\ playQ' = Append(playQ, "info")
              /\ hp' = "startMoh"
              /\ UNCHANGED <<timerOn, dispatchVars>>
         ELSE /\ timerOn' = TRUE
              /\ SeqCall
              /\ hp' = "dispatch"
              /\ playQ' = playQ
  /\ UNCHANGED <<mode, queueNumbers, inboundAlive, recording, attemptVars,
                 handoffVars, queueVars, hangups, redirect, dtmfOn, dpcb,
                 digits, enqueued, pfReg, confirmDone, enrollHangups, tpc, ticks,
                 unhandled>>

\* Dispatch returned: clearInterval, `void stopMoh()`, and on failure
\* `void setChannelVar(...)`, `void continueInDialplan(...)`: none is awaited,
\* so a rejection on a gone channel is caught by nobody.
CitationAfterDispatch ==
  /\ mode = "citation"
  /\ hp = "dispatch"
  /\ dpc = "done"
  /\ timerOn' = FALSE
  /\ unhandled' = (unhandled \/ ~inboundAlive)
  /\ redirect' = IF RedirectWanted THEN <<SetVarRequest, ContinueRequest>> ELSE redirect
  /\ hp' = "done"
  /\ UNCHANGED <<mode, queueNumbers, inboundAlive, recording, attemptVars,
                 handoffVars, queueVars, hangups, dispatchVars, dtmfOn, dpcb,
                 digits, enqueued, playQ, pfReg, confirmDone, enrollHangups, tpc,
                 ticks>>

----------------------------------------------------------------------------
\* callbackRequestHandler (callback enrollment).

\* Mutant of CallbackRequestAccepted: the digit listener stays attached.
CallbackRequestAcceptedKeepListener ==
  /\ dtmfOn' = dtmfOn
  /\ dpcb' = "stopPlayback"

\* The handler up to its first await on digit '1':
\* removeAllListeners('ChannelDtmfReceived'), then stopPlayback is issued.
CallbackRequestAccepted ==
  /\ dtmfOn' = FALSE
  /\ dpcb' = "stopPlayback"

\* A digit-received event on the inbound channel: delivered to the listener
\* when one is attached; any digit but '1' returns at once.
ChannelDtmfReceived(d) ==
  /\ mode = "citation"
  /\ inboundAlive
  /\ digits < MaxDigits
  /\ digits' = digits + 1
  /\ IF dtmfOn /\ d = "1"
       THEN CallbackRequestAccepted
       ELSE UNCHANGED <<dtmfOn, dpcb>>
  /\ UNCHANGED <<mode, queueNumbers, inboundAlive, recording, attemptVars,
                 handoffVars, queueVars, hangups, dispatchVars, hp, redirect,
                 enqueued, playQ, pfReg, confirmDone, enrollHangups, timerOn, tpc,
                 ticks, unhandled>>

\* stopPlayback resolved; stopRecording is issued.
EnrollStopPlayback ==
  /\ dpcb = "stopPlayback"
  /\ StopPlayback
  /\ dpcb' = "stopRecording"
  /\ UNCHANGED <<mode, queueNumbers, inboundAlive, recording, attemptVars,
                 handoffVars, queueVars, dispatchVars, hp, redirect, dtmfOn,
                 digits, enqueued, timerOn, tpc, ticks, unhandled>>

\* stopRecording resolved: the entry is enqueued and the confirmation
\* prompt's play issued.
EnrollEnqueue ==
  /\ dpcb = "stopRecording"
  /\ recording' = IF recording = "active" THEN "stopped" ELSE recording
  /\ callbackQueue' = Append(callbackQueue, OwnEntry)
  /\ enrolled' = Append(enrolled, OwnEntry)
  /\ delivered' = delivered
  /\ enqueued' = enqueued + 1
  /\ dpcb' = "play"
  /\ UNCHANGED <<mode, queueNumbers, inboundAlive, attemptVars, handoffVars,
                 hangups, dispatchVars, hp, redirect, dtmfOn, digits, playQ, pfReg,
                 confirmDone, enrollHangups, timerOn, tpc, ticks, unhandled>>

\* `await inboundChannel.play(confirmation, playback)` resolved: the
\* PlaybackFinished once-listener is registered on `playback`; on a gone
\* channel the play rejects and the async listener ends with it.
EnrollPlay ==
  /\ dpcb = "play"
  /\ IF inboundAlive
       THEN /\ playQ' = Append(playQ, "confirm")
            /\ pfReg' = TRUE
            /\ dpcb' = "listening"
            /\ unhandled' = unhandled
       ELSE /\ dpcb' = "threw"
            /\ unhandled' = TRUE
            /\ UNCHANGED <<playQ, pfReg>>
  /\ UNCHANGED <<mode, queueNumbers, inboundAlive, recording, attemptVars,
                 handoffVars, queueVars, hangups, dispatchVars, hp, redirect,
                 dtmfOn, digits, enqueued, confirmDone, enrollHangups, timerOn,
                 tpc, ticks>>

\* The media at the head of the channel's playback queue finishes playing.
PlaybackEnds ==
  /\ playQ # <<>>
  /\ PlaybackFinished
  /\ UNCHANGED <<mode, queueNumbers, inboundAlive, recording, attemptVars,
                 handoffVars, queueVars, dispatchVars, hp, redirect, dtmfOn,
                 dpcb, digits, enqueued, timerOn, tpc, ticks, unhandled>>

----------------------------------------------------------------------------
\* The setInterval callback of promptCitationQueueHandler.

\* The timer fires: stopMoh is issued.
TimerTick ==
  /\ timerOn
  /\ tpc = "idle"
  /\ ticks < MaxTicks
  /\ ticks' = ticks + 1
  /\ tpc' = "stopMoh"
  /\ UNCHANGED <<mode, queueNumbers, inboundAlive, recording, attemptVars,
                 handoffVars, queueVars, hangups, dispatchVars, hp, redirect,
                 dtmfOn, dpcb, digits, enqueued, playQ, pfReg, confirmDone,
                 enrollHangups, timerOn, unhandled>>

\* One awaited request of the callback resolved (stopMoh, play, startMoh); a
\* rejection on a gone channel is caught and logged.
TimerStep ==
  /\ tpc \in {"stopMoh", "play", "startMoh"}
  /\ IF ~inboundAlive
       THEN tpc' = "idle" /\ playQ' = playQ
       ELSE CASE tpc = "stopMoh" -> tpc' = "play" /\ playQ' = playQ
              [] tpc = "play" -> tpc' = "startMoh" /\ playQ' = Append(playQ, "info")
              [] tpc = "startMoh" -> tpc' = "idle" /\ playQ' = playQ
  /\ UNCHANGED <<mode, queueNumbers, inboundAlive, recording, attemptVars,
                 handoffVars, queueVars, hangups, dispatchVars, hp, redirect,
                 dtmfOn, dpcb, digits, enqueued, pfReg, confirmDone,
                 enrollHangups, timerOn, ticks, unhandled>>

----------------------------------------------------------------------------
\* Specifications: one per entry point.

\* callQueueMembersRingall called on a live session.
InitRingall == InitCommon("ringall", DirectLists(MaxDest)) /\ dpc = "start" /\ hp = "none"
NextRingall ==
  \/ RingallCall
  \/ \E i \in Dests : OriginateResolve(i)
  \/ \E i \in Dests : OutboundStasisStart(i)
  \/ \E i \in Dests : HandlerStopPlayback(i)
  \/ \E i \in Dests : HandlerLookup(i)
  \/ \E i \in Dests : HandlerCallbackOriginate(i)
  \/ \E i \in Dests : HandlerStopMoh(i)
  \/ \E i \in Dests : BridgeCreated(i)
  \/ \E i \in Dests : OutboundStasisEnd(i)
  \/ \E i \in Dests : OutboundChannelDestroyed(i)
  \/ \E i \in Dests : CallbackStasisStart(i)
  \/ \E i \in Dests : CallbackBridgeCreated(i)
  \/ \E i \in Dests : CallbackStasisEnd(i)
  \/ \E i \in Dests : CallbackNoAnswer(i)
  \/ InboundGone
SpecRingall == InitRingall /\ [][NextRingall]_vars

\* inboundQueueHandler called for an inbound session.
InitPlain == InitCommon("plain", ConfiguredLists(MaxDest)) /\ dpc = "idle" /\ hp = "recording"
NextPlain ==
  \/ PlainStart
  \/ SeqLookup
  \/ \E i \in Dests : OriginateResolve(i)
  \/ \E i \in Dests : OutboundStasisStart(i)
  \/ \E i \in Dests : HandlerStopPlayback(i)
  \/ \E i \in Dests : HandlerLookup(i)
  \/ \E i \in Dests : HandlerCallbackOriginate(i)
  \/ \E i \in Dests : HandlerStopMoh(i)
  \/ \E i \in Dests : BridgeCreated(i)
  \/ \E i \in Dests : OutboundStasisEnd(i)
  \/ \E i \in Dests : OutboundChannelDestroyed(i)
  \/ \E i \in Dests : CallbackStasisStart(i)
  \/ \E i \in Dests : CallbackBridgeCreated(i)
  \/ \E i \in Dests : CallbackStasisEnd(i)
  \/ \E i \in Dests : CallbackNoAnswer(i)
  \/ PlainAfterDispatch
  \/ PlainRedirectStep
  \/ InboundGone
SpecPlain == InitPlain /\ [][NextPlain]_vars

\* promptCitationQueueHandler called for an inbound session.
InitCitation ==
  InitCommon("citation", ConfiguredLists(MaxCitationDest)) /\ dpc = "idle" /\ hp = "recording"
NextCitation ==
  \/ CitationStart
  \/ CitationPrompt
  \/ SeqLookup
  \/ \E i \in Dests : OriginateResolve(i)
  \/ \E i \in Dests : OutboundStasisStart(i)
  \/ \E i \in Dests : HandlerStopPlayback(i)
  \/ \E i \in Dests : HandlerLookup(i)
  \/ \E i \in Dests : HandlerCallbackOriginate(i)
  \/ \E i \in Dests : HandlerStopMoh(i)
  \/ \E i \in Dests : BridgeCreated(i)
  \/ \E i \in Dests : OutboundStasisEnd(i)
  \/ \E i \in Dests : OutboundChannelDestroyed(i)
  \/ \E i \in Dests : CallbackStasisStart(i)
  \/ \E i \in Dests : CallbackBridgeCreated(i)
  \/ \E i \in Dests : CallbackStasisEnd(i)
  \/ \E i \in Dests : CallbackNoAnswer(i)
  \/ CitationAfterDispatch
  \/ \E d \in {"1", "5"} : ChannelDtmfReceived(d)
  \/ EnrollStopPlayback
  \/ EnrollEnqueue
  \/ EnrollPlay
  \/ PlaybackEnds
  \/ TimerTick
  \/ TimerStep
  \/ InboundGone
SpecCitation == InitCitation /\ [][NextCitation]_vars

\* callQueueMembersRingall called on a live session while other sessions of
\* the process enroll for callbacks and hand entries to their own agents.
InitSessions ==
  InitCommon("ringall", DirectLists(MaxSessionsDest)) /\ dpc = "start" /\ hp = "none"
NextSessions ==
  \/ RingallCall
  \/ \E i \in Dests : OriginateResolve(i)
  \/ \E i \in Dests : OutboundStasisStart(i)
  \/ \E i \in Dests : HandlerStopPlayback(i)
  \/ \E i \in Dests : HandlerLookup(i)
  \/ \E i \in Dests : HandlerCallbackOriginate(i)
  \/ \E i \in Dests : HandlerStopMoh(i)
  \/ \E i \in Dests : BridgeCreated(i)
  \/ \E i \in Dests : OutboundStasisEnd(i)
  \/ \E i \in Dests : OutboundChannelDestroyed(i)
  \/ \E i \in Dests : CallbackStasisStart(i)
  \/ \E i \in Dests : CallbackBridgeCreated(i)
  \/ \E i \in Dests : CallbackStasisEnd(i)
  \/ \E i \in Dests : CallbackNoAnswer(i)
  \/ InboundGone
  \/ OtherSessionEnroll
  \/ OtherSessionHandoff
SpecSessions == InitSessions /\ [][NextSessions]_vars

\* Either dispatch strategy: callQueueMembersRingall called on a live session,
\* or callQueueMembers called by inboundQueueHandler.
InitDispatch == InitRingall \/ InitPlain
NextDispatch ==
  \/ RingallCall
  \/ PlainStart
  \/ SeqLookup
  \/ \E i \in Dests : OriginateResolve(i)
  \/ \E i \in Dests : OutboundStasisStart(i)
  \/ \E i \in Dests : HandlerStopPlayback(i)
  \/ \E i \in Dests : HandlerLookup(i)
  \/ \E i \in Dests : HandlerCallbackOriginate(i)
  \/ \E i \in Dests : HandlerStopMoh(i)
  \/ \E i \in Dests : BridgeCreated(i)
  \/ \E i \in Dests : OutboundStasisEnd(i)
  \/ \E i \in Dests : OutboundChannelDestroyed(i)
  \/ \E i \in Dests : CallbackStasisStart(i)
  \/ \E i \in Dests : CallbackBridgeCreated(i)
  \/ \E i \in Dests : CallbackStasisEnd(i)
  \/ \E i \in Dests : CallbackNoAnswer(i)
  \/ PlainAfterDispatch
  \/ PlainRedirectStep
  \/ InboundGone
SpecDispatch == InitDispatch /\ [][NextDispatch]_vars

Init == InitRingall \/ InitPlain \/ InitCitation
Next == NextRingall \/ NextPlain \/ NextCitation
Spec == Init /\ [][Next]_vars

----------------------------------------------------------------------------
\* Claims.

Originated(i) == och[i] \notin {"none", "originating", "rejected"}
Terminal(i) == och[i] \in {"rejected", "destroyed"}
Bridged(i) == bridge[i] \in {"created", "destroyed"} /\ addIssued[i]

\* C1: in one ring-all dispatch call at most one outbound attempt creates a
\* bridge and adds the inbound channel to it, whatever the order of the
\* StasisStart events.
C1_AtMostOneBridge == Cardinality({i \in Dests : Bridged(i)}) <= 1

\* C2: when the result of ring-all dispatch resolves, hangupChannel has been
\* called on every outbound channel it originated, except at most one (the
\* winner); stated for the runs that have a winner.
C2_LosersHungUp ==
  (dpc = "done" /\ result = "true") =>
    Cardinality({i \in Dests : Originated(i) /\ Out(i) \notin hangups}) <= 1

\* C3: once an attempt of ring-all dispatch has answered, every other
\* outbound channel still in flight has been sent a hangup no later than the
\* winner's channel is destroyed; with ["201", "202"] and "202" answering
\* first the result is true and the channel of "201" was sent a hangup.
C3_DropOthersOnAnswer ==
  /\ \A w \in Dests : \A j \in Dests \ {w} :
       (res[w] = "true" /\ och[j] \in {"ringing", "up"}) => Out(j) \in hangups
  /\ (dpc = "done" /\ queueNumbers = <<"201", "202">> /\ answeredChannel = "202")
       => (result = "true" /\ Out(1) \in hangups)

\* C4: sequential dispatch has issued an originate for destination j only
\* when the attempt of every earlier destination is terminal (its originate
\* rejected, or its outbound channel destroyed).
C4_OneAtATime ==
  \A j \in Dests : och[j] # "none" => \A i \in 1..(j - 1) : Terminal(i)

C4_Witness == \E j \in Dests : j > 1 /\ och[j] = "ringing" /\ och[1] = "destroyed"

\* C5: once a lookup of the inbound channel has failed in callQueueMembers, no
\* originate is issued for that destination or any later one, and the dispatch
\* returns false.
C5_AbortWhenCallerGone ==
  notAlive > 0 =>
    /\ \A i \in Dests : i >= notAlive => och[i] = "none"
    /\ dpc = "done" => result = "false"

C5_Witness ==
  /\ notAlive > 0
  /\ notAlive < Len(queueNumbers)
  /\ dpc = "done"
  /\ result = "false"

\* C6: one callback-enabled session enqueues exactly one Callback Entry once a
\* digit '1' has reached its handler and none otherwise, however many digits
\* follow; a digit-received event that is not an accepted '1' changes nothing
\* but the count of delivered events.
C6_ExactlyOneEnrollment ==
  /\ [](enqueued = IF dpcb \in {"play", "listening", "threw"} THEN 1 ELSE 0)
  /\ [][ChannelDtmfReceived("5") =>
          UNCHANGED <<mode, queueNumbers, inboundAlive, recording, attemptVars,
                      handoffVars, queueVars, hangups, dispatchVars, hp,
                      redirect, dtmfOn, dpcb, enqueued, playQ, pfReg,
                      confirmDone, enrollHangups, timerOn, tpc, ticks,
                      unhandled>>]_vars

C6_Witness == enqueued = 1 /\ digits >= 2 /\ dpcb = "listening"

\* C7: the enrollment handler hangs up the inbound channel at most once, and
\* only when the confirmation prompt's playback has finished.
C7_HangupAfterConfirmation ==
  /\ enrollHangups <= 1
  /\ enrollHangups > 0 => confirmDone

RedirectRequests == <<AnswerRequest, SetVarRequest, ContinueRequest>>
PastDispatch == hp \in {"answer", "setVar", "continue", "done"}
NeverAnswered(i) == och[i] = "destroyed" /\ hpc[i] = "idle"

\* C8: inboundQueueHandler starts the voicemail redirect if and only if
\* dispatch returned false; its requests are answer, set MESSAGE to the
\* record's message, continue in the configured context at the record's
\* voicemail extension, in that order and all of them while the inbound
\* channel is there; with ["201"] never answering the result is false and the
\* redirect runs.
C8_RedirectIffFailure ==
  /\ (redirect # <<>>) <=> (PastDispatch /\ result = "false")
  /\ \E n \in 0..3 : redirect = SubSeq(RedirectRequests, 1, n)
  /\ (hp = "done" /\ result = "false" /\ inboundAlive) => redirect = RedirectRequests
  /\ (queueNumbers = <<"201">> /\ NeverAnswered(1) /\ PastDispatch)
       => (result = "false" /\ redirect # <<>>)

C8_Witness ==
  /\ queueNumbers = <<"201">>
  /\ NeverAnswered(1)
  /\ hp = "done"
  /\ redirect = RedirectRequests

\* Age of a queue entry: other sessions' entries were enqueued first, in order.
Age(e) == IF e[1] = "own" THEN MaxForeign + 1 ELSE e[2]

\* C9: when an agent's channel answers with the inbound caller gone and the
\* Callback Queue not empty, the oldest entry is dequeued and a callback
\* channel originated for it; once the callback channel has answered, the
\* callback bridge is created and joins the agent's channel and the callback
\* channel; the service does not hang the agent up while the callback is in
\* progress.
C9_HandoffBridgesAgent ==
  \A i \in Dests : cbData[i] # NoEntry =>
    /\ callerGone[i]
    /\ \A j \in 1..Len(callbackQueue) : Age(cbData[i]) < Age(callbackQueue[j])
    /\ cb[i] # "none"
    /\ cb[i] = "up" => cbBridge[i] \in {"creating", "created"}
    /\ cbBridge[i] \in {"created", "destroyed"} => cbAdded[i] = {Out(i), Cb(i)}
    /\ cb[i] \in {"originating", "ringing", "up"} => Out(i) \notin hangups

C9_Witness ==
  \E i \in Dests :
    /\ enqueued = 1
    /\ ~inboundAlive
    /\ cbData[i] = OwnEntry
    /\ och[i] = "up"
    /\ cb[i] = "up"
    /\ cbBridge[i] = "created"

\* C10: when an agent's channel answers with the inbound caller gone and the
\* Callback Queue empty, the handler hangs up the agent's channel and creates
\* no bridge.
C10_IdleAgentReleased ==
  \A i \in Dests :
    (callerGone[i] /\ cbData[i] = NoEntry /\ hpc[i] \in {"threw", "done"})
      => (Out(i) \in hangups /\ bridge[i] = "none" /\ cbBridge[i] = "none")

\* C11: in a call-member attempt whose inbound-channel lookup failed (caller
\* gone), the handler goes to the callback-service handoff and no bridge is
\* created, and no addChannel with the inbound channel issued, in that attempt.
C11_HandoffInsteadOfBridging ==
  \A i \in Dests : callerGone[i] =>
    /\ bridge[i] = "none"
    /\ ~addIssued[i]
    /\ (cbData[i] = NoEntry) <=> (cb[i] = "none")

C11_Witness ==
  \E i \in Dests : callerGone[i] /\ hpc[i] = "threw" /\ cb[i] = "up"

\* C12: across any interleaving of this session's handoffs with other
\* sessions' enrollments and handoffs, the entries the dequeues returned, in
\* dequeue order, are a prefix of the entries enqueued, in enqueue order; no
\* entry reaches two answering agents; a dequeue on the empty queue returns no
\* entry and the handler goes on at once.
C12_FifoAtMostOnce ==
  /\ Len(delivered) <= Len(enrolled)
  /\ delivered = SubSeq(enrolled, 1, Len(delivered))
  /\ callbackQueue = SubSeq(enrolled, Len(delivered) + 1, Len(enrolled))
  /\ \A i \in Dests : \A j \in Dests \ {i} :
       cbData[i] # NoEntry => cbData[i] # cbData[j]
  /\ \A i \in Dests : cbData[i] # NoEntry =>
       \E n \in 1..Len(delivered) : delivered[n] = cbData[i]
  /\ \A i \in Dests : (callerGone[i] /\ cbData[i] = NoEntry) =>
       (hpc[i] \in {"stopMoh", "threw"} /\ cb[i] = "none")

C12_Witness ==
  \E i \in Dests :
    /\ OtherHandoffs = 1
    /\ Len(delivered) = 2
    /\ cbData[i] = delivered[2]
    /\ Len(enrolled) > Len(delivered)
    /\ cb[i] = "up"

\* C13: every failure of a control-plane request on a channel that has
\* disappeared is caught inside the strategies, the outbound StasisStart
\* handler and the queue session handlers: no handler ends with a rejection
\* that nobody catches.
C13_NoUncaughtFailure ==
  /\ ~unhandled
  /\ \A i \in Dests : hpc[i] # "threw"

\* C14: the result of ring-all dispatch resolves only when every attempt it
\* started is terminal (originate rejected, or outbound channel destroyed):
\* never while one of its outbound channels is still ringing or in a call.
C14_RingallJoinsAll ==
  (dpc = "done" \/ result # "none") =>
    \A i \in Dests : Terminal(i) /\ res[i] # "pending"

C14_Witness ==
  /\ Len(queueNumbers) = 2
  /\ dpc = "done"
  /\ result = "true"
  /\ res[1] = "true"
  /\ res[2] = "false"
  /\ och[2] = "destroyed"

\* C15: an originate the control plane rejects resolves that attempt alone as
\* failed: in ring-all the dispatch stays at its join while a sibling is
\* pending, and a sibling can still answer and win; in sequential dispatch the
\* loop goes on to the next destination and dials it unless the inbound
\* channel is found gone.
C15_RejectionSparesSiblings ==
  \A i \in Dests : och[i] = "rejected" =>
    /\ res[i] = "false"
    /\ hpc[i] = "idle"
    /\ mode = "ringall" =>
         ((\E j \in Dests : res[j] = "pending") => (dpc = "join" /\ result = "none"))
    /\ (mode = "plain" /\ i < Len(queueNumbers)) =>
         /\ k > i
         /\ och[i + 1] = "none" => ((dpc = "lookup" /\ k = i + 1) \/ notAlive = i + 1)

C15_Witness ==
  /\ Len(queueNumbers) = 2
  /\ och[1] = "rejected"
  /\ res[2] = "true"
  /\ Bridged(2)
  /\ dpc = "done"
  /\ result = "true"

\* C16: once the bridge joining the inbound caller and the answered outbound
\* channel exists, the step in which either side's session ends destroys the
\* bridge and hangs up the other side: the outbound channel's end hangs up the
\* inbound channel, the inbound channel's end hangs up the outbound channel.
C16_TeardownOnEitherEnd ==
  [][\A i \in Dests :
       (bridge[i] = "created" /\ och[i] = "up" /\ inboundAlive) =>
         /\ och'[i] = "ended" =>
              (bridge'[i] = "destroyed" /\ Inbound \in hangups')
         /\ ~inboundAlive' =>
              (bridge'[i] = "destroyed" /\ Out(i) \in hangups')]_vars

\* C17: after the handoff has bridged the agent's channel with the callback
\* channel, the step in which either side's session ends destroys both bridges
\* and hangs up the other channel: the callback channel's end hangs up the
\* agent's channel, the agent's channel's end hangs up the callback channel.
C17_HandoffTeardown ==
  [][\A i \in Dests :
       (cbBridge[i] = "created" /\ cb[i] = "up" /\ och[i] = "up") =>
         /\ cb'[i] = "ended" =>
              /\ cbBridge'[i] = "destroyed"
              /\ bridge'[i] # "created"
              /\ Out(i) \in hangups'
         /\ och'[i] = "ended" =>
              /\ cbBridge'[i] = "destroyed"
              /\ bridge'[i] # "created"
              /\ Cb(i) \in hangups']_vars

\* C18: in the callback-enabled queue, the step in which a request of a
\* prompt-replay tick (stopMoh, play, startMoh) fails on the gone inbound
\* channel stops the timer, so that no later tick fires, and throws nothing.
C18_FailedTickStopsTimer ==
  [][(tpc # "idle" /\ ~inboundAlive /\ tpc' = "idle") =>
       (~timerOn' /\ unhandled' = unhandled)]_vars

\* C19: with zero destinations configured the dispatch returns false at once
\* and no originate is issued: for a strategy called with the empty list, and
\* for a queue session handler whose queue record has the empty destination
\* string (the list getListOfQueuePhoneNumbers derives from it).
C19_NoDestinationsNoOriginate ==
  (queueNumbers = <<>> \/ queueNumbers = GetListOfQueuePhoneNumbers(<<>>)) =>
    /\ \A i \in Dests : och[i] = "none"
    /\ dpc \in {"start", "idle", "done"}
    /\ dpc = "done" => result = "false"

\* C20: a call-member attempt that resolved false has created no bridge and
\* issued no addChannel, and never does afterwards, whatever await its
\* StasisStart handler was suspended at when ChannelDestroyed was processed;
\* so sequential dispatch has dialled no later destination while an earlier
\* attempt holds a bridge for the caller.
C20_FailedAttemptNeverBridges ==
  /\ \A i \in Dests : res[i] = "false" => (bridge[i] = "none" /\ ~addIssued[i])
  /\ \A j \in Dests : \A i \in 1..(j - 1) :
       (mode # "ringall" /\ och[j] # "none") => bridge[i] \notin {"creating", "created"}
====
